---- MODULE Spec2Model ----
(***************************************************************************)
(* StudyFlow: the block store (zustand store studyflow-store), the         *)
(* timetable's add dialog, its cell resolver and its drag-end handler,     *)
(* and the task add dialog.                                                *)
(*                                                                         *)
(* Time.  A JavaScript Date is its time value.  The model counts it in     *)
(* whole seconds since 2024-01-01T00:00:00Z; every Date the modelled code  *)
(* builds has zero milliseconds.  NaN is the time value of an Invalid Date *)
(* and the number NaN.  The local time zone is a fixed offset from UTC     *)
(* (no daylight saving), chosen by the environment: tz hours east of UTC.  *)
(* A day key 'yyyy-MM-dd' is the number of that calendar date, counted in  *)
(* days from 2024-01-01 (day 0).  An ISO string, as toISOString writes it, *)
(* is the record of its UTC fields.                                        *)
(***************************************************************************)
EXTENDS Integers, Sequences, FiniteSets, TLC

VARIABLES
    tz,              \* environment: local time zone, hours east of UTC
    now,             \* environment: the time value "new Date()" gives
    uuid,            \* number of ids uuidv4 has handed out
    tasks,           \* store: Task[]
    timeBlocks,      \* store: TimeBlock[]
    studySessions,   \* store: StudySession[]
    weekStart,       \* Timetable state: local midnight of the week's first day
    activeId,        \* Timetable state: id of the block being dragged, or Null
    activeTimeBlock, \* Timetable state: the dragged block's record in a set; {} is null
    pressed,         \* history: how often each week button has been pressed
    saved,           \* the states the last handler published to persistence
    last             \* the last handler run, how it ended (it returned early,
                     \* it threw, or it called the store) and, when it called
                     \* the store or was a drag handler, the input it was given

vars == <<tz, now, uuid, tasks, timeBlocks, studySessions, weekStart,
          activeId, activeTimeBlock, pressed, saved, last>>

store == <<tasks, timeBlocks, studySessions>>

(***************************************************************************)
(* Bounds of the model.                                                    *)
(***************************************************************************)
MaxIds == 2          \* uuidv4 is called at most this many times
MaxBlockHours == 25  \* a handler's result is kept only if no block is longer
MaxPresses == 3      \* the week buttons are pressed at most this many times
MaxTicks == 1        \* the clock is seen to advance at most this many hours
MaxDays == 2         \* getProductivityData is asked for at most this many days

TimeZones == {-1, 0, 1}          \* local offsets the environment may have
UserDayIndices == {3, 4}         \* the day columns the user acts on
UserHours == {9, 23}             \* the hour rows the user acts on
\* What the user may have typed in the title and duration fields.
Titles == {<<" ">>, <<"S", " ">>}
DurationTexts == {<<>>, <<"0">>, <<"3">>}
TaskTitles == {<<>>, <<" ", "T">>}

\* null / undefined
Null == 0
\* The number NaN, and the time value of an Invalid Date: no integer the
\* model computes with.
NaN == -999999999

(***************************************************************************)
(* The calendar and the Date methods the code uses.                        *)
(***************************************************************************)
SecPerHour == 60 * 60
SecPerDay == 24 * SecPerHour

MonthLengths == <<31, 29, 31, 30, 31, 30, 31, 31, 30, 31, 30, 31>>

RECURSIVE MonthDay(_, _)
MonthDay(n, m) ==
    IF m > 12 THEN MonthDay(n, 1)
    ELSE IF n < MonthLengths[m] THEN n + 1
    ELSE MonthDay(n - MonthLengths[m], m + 1)

\* Day-of-month of calendar day number n (n >= 0).
DayOfMonth(n) == MonthDay(n, 1)

\* Day of the week of calendar day number n, 0 = Sunday (2024-01-01 is Monday).
DayOfWeek(n) == (n + 1) % 7

LocalSeconds(t) == t + tz * SecPerHour
LocalDay(t) == LocalSeconds(t) \div SecPerDay

\* new Date('yyyy-MM-dd'): a date-only string is read as UTC midnight.
NewDateFromDay(day) == day * SecPerDay

\* Date.prototype.toISOString, for a valid date: the UTC fields.
toISOString(t) ==
    [date |-> t \div SecPerDay,
     h |-> (t % SecPerDay) \div SecPerHour,
     m |-> (t % SecPerHour) \div 60,
     s |-> t % 60]

\* new Date(isoString)
NewDateFromISO(iso) == iso.date * SecPerDay + iso.h * SecPerHour + iso.m * 60 + iso.s

getHours(t) == IF t = NaN THEN NaN ELSE (LocalSeconds(t) % SecPerDay) \div SecPerHour
getDate(t) == IF t = NaN THEN NaN ELSE DayOfMonth(LocalDay(t))

\* a !== b on numbers: NaN differs from every number, itself included.
StrictNotEqual(a, b) == a = NaN \/ b = NaN \/ a # b

\* a + b on numbers
Plus(a, b) == IF a = NaN \/ b = NaN THEN NaN ELSE a + b

\* Date.prototype.setHours(h, m, s): local fields, out-of-range hours roll over.
setHours(t, h, m, s) ==
    IF t = NaN \/ h = NaN THEN NaN
    ELSE LocalDay(t) * SecPerDay + h * SecPerHour + m * 60 + s - tz * SecPerHour

\* date-fns format(date, 'yyyy-MM-dd'): the local calendar day.
formatDay(t) == LocalDay(t)

\* date-fns addDays
addDays(t, n) == t + n * SecPerDay

\* date-fns startOfWeek: local midnight of the Sunday on or before the date.
startOfWeek_today(t) == setHours(t, 0, 0, 0)

startOfWeek(t) ==
    setHours(t, 0, 0, 0) - DayOfWeek(LocalDay(t)) * SecPerDay

DigitValue(c) ==
    CASE c = "0" -> 0 [] c = "1" -> 1 [] c = "2" -> 2 [] c = "3" -> 3 [] c = "4" -> 4
      [] c = "5" -> 5 [] c = "6" -> 6 [] c = "7" -> 7 [] c = "8" -> 8 [] c = "9" -> 9
      [] OTHER -> NaN

RECURSIVE ParseDigits(_, _)
\* The value of the longest run of digits str starts with, after acc.
ParseDigits(str, acc) ==
    IF str = <<>> \/ DigitValue(Head(str)) = NaN THEN acc
    ELSE ParseDigits(Tail(str), 10 * acc + DigitValue(Head(str)))

\* parseInt(text): an optional sign and the leading digits; NaN without a digit.
parseInt(text) ==
    LET neg == text # <<>> /\ Head(text) = "-"
        body == IF neg THEN Tail(text) ELSE text
    IN IF body = <<>> \/ DigitValue(Head(body)) = NaN THEN NaN
       ELSE IF neg THEN 0 - ParseDigits(body, 0) ELSE ParseDigits(body, 0)

RECURSIVE Trim(_)
\* String.prototype.trim on a string given as its sequence of characters.
Trim(str) ==
    IF str = <<>> THEN <<>>
    ELSE IF Head(str) = " " THEN Trim(Tail(str))
    ELSE IF str[Len(str)] = " " THEN Trim(SubSeq(str, 1, Len(str) - 1))
    ELSE str

(***************************************************************************)
(* The store (create(persist(...)) of studyflow-store).                    *)
(***************************************************************************)
\* { ...record, ...updates }
Merge(record, updates) ==
    [f \in DOMAIN record \cup DOMAIN updates |->
        IF f \in DOMAIN updates THEN updates[f] ELSE record[f]]

\* The list addTimeBlock sets: the caller's fields and the new id, appended.
addTimeBlock_prepends(blocks, timeBlock, id) ==
    <<Merge(timeBlock, [id |-> id])>> \o blocks

addTimeBlock(blocks, timeBlock, id) ==
    Append(blocks, Merge(timeBlock, [id |-> id]))

\* The list updateTimeBlock sets.
updateTimeBlock_movesToEnd(blocks, id, updates) ==
    SelectSeq(blocks, LAMBDA block : block.id # id)
        \o [i \in DOMAIN SelectSeq(blocks, LAMBDA block : block.id = id) |->
                Merge(SelectSeq(blocks, LAMBDA block : block.id = id)[i], updates)]

updateTimeBlock_replaces(blocks, id, updates) ==
    [i \in DOMAIN blocks |->
        IF blocks[i].id = id THEN Merge(updates, [id |-> id]) ELSE blocks[i]]

updateTimeBlock(blocks, id, updates) ==
    [i \in DOMAIN blocks |->
        IF blocks[i].id = id THEN Merge(blocks[i], updates) ELSE blocks[i]]

\* The list deleteTimeBlock sets.
deleteTimeBlock_splice(blocks, id) ==
    IF \E i \in DOMAIN blocks : blocks[i].id = id
    THEN SelectSeq(blocks, LAMBDA block : block.id # id)
    ELSE SubSeq(blocks, 1, Len(blocks) - 1)

deleteTimeBlock_inverted(blocks, id) ==
    SelectSeq(blocks, LAMBDA block : block.id = id)

deleteTimeBlock(blocks, id) ==
    SelectSeq(blocks, LAMBDA block : block.id # id)

\* The list addTask sets: the caller's fields, the new id and createdAt.
addTask(list, task, id) ==
    Append(list, Merge(task, [id |-> id, createdAt |-> toISOString(now)]))

\* The list updateTask sets.
updateTask_stamps(list, id, updates) ==
    [i \in DOMAIN list |->
        IF list[i].id = id
        THEN Merge(Merge(list[i], updates), [createdAt |-> toISOString(now)])
        ELSE list[i]]

updateTask(list, id, updates) ==
    [i \in DOMAIN list |->
        IF list[i].id = id THEN Merge(list[i], updates) ELSE list[i]]

\* The list completeTask sets.
completeTask(list, id) ==
    [i \in DOMAIN list |->
        IF list[i].id = id THEN Merge(list[i], [completed |-> TRUE]) ELSE list[i]]

\* The list deleteTask sets.
deleteTask(list, id) ==
    SelectSeq(list, LAMBDA task : task.id # id)

\* The list addStudySession sets: the caller's fields and the new id, appended.
addStudySession(sessions, session, id) ==
    Append(sessions, Merge(session, [id |-> id]))

\* The list updateStudySession sets.
updateStudySession(sessions, id, updates) ==
    [i \in DOMAIN sessions |->
        IF sessions[i].id = id THEN Merge(sessions[i], updates) ELSE sessions[i]]

\* The list deleteStudySession sets.
deleteStudySession(sessions, id) ==
    SelectSeq(sessions, LAMBDA session : session.id # id)

\* Array.prototype.slice(begin): a negative begin counts from the end, and
\* -0 is 0, the whole array.
slice(array, begin) ==
    LET len == Len(array)
        from == IF begin < 0
                THEN (IF len + begin > 0 THEN len + begin ELSE 0)
                ELSE (IF begin < len THEN begin ELSE len)
    IN SubSeq(array, from + 1, len)

\* Math.round((total / count) * 10) / 10, as a number of tenths.
roundToTenths(total, count) == (20 * total + count) \div (2 * count)

\* Array.prototype.sort by date, ascending, of entries of distinct dates.
sortByDate(entries) ==
    CHOOSE sorted \in [1 .. Cardinality(entries) -> entries] :
        \A i, j \in 1 .. Cardinality(entries) : i < j => sorted[i].date < sorted[j].date

\* getProductivityData: one entry per local day of a session's start, with
\* the rounded mean of the day's productivities (in tenths), by date, then
\* slice(-days).
getProductivityData(sessions, days) ==
    LET dayOf(session) == formatDay(NewDateFromISO(session.startTime))
        sessionsByDay == {dayOf(sessions[k]) : k \in DOMAIN sessions}
        RECURSIVE total(_, _)
        total(day, k) ==
            IF k = 0 THEN 0
            ELSE total(day, k - 1)
                    + (IF dayOf(sessions[k]) = day THEN sessions[k].productivity ELSE 0)
        count(day) == Cardinality({k \in DOMAIN sessions : dayOf(sessions[k]) = day})
        result == {[date |-> day,
                    productivity |-> roundToTenths(total(day, Len(sessions)), count(day))] :
                        day \in sessionsByDay}
    IN slice(sortByDate(result), -days)

\* getTasksForToday: the tasks a block of today names, and the open tasks
\* whose deadline is today.
getTasksForToday(list, blocks) ==
    LET today == formatDay(now)
        todayTaskIds ==
            {blocks[i].taskId : i \in {j \in DOMAIN blocks :
                                          blocks[j].day = today /\ blocks[j].taskId # Null}}
    IN SelectSeq(list, LAMBDA task :
           \/ task.id \in todayTaskIds
           \/ (formatDay(NewDateFromISO(task.deadline)) = today /\ ~task.completed))

\* timeBlocks.find(block => block.id === id) finds a block.
found(blocks, id) == \E i \in DOMAIN blocks : blocks[i].id = id

\* timeBlocks.find(block => block.id === id), when it finds one: the first.
find(blocks, id) ==
    blocks[CHOOSE i \in DOMAIN blocks :
               /\ blocks[i].id = id
               /\ \A j \in DOMAIN blocks : blocks[j].id = id => i <= j]

\* What persist writes after a set: the whole state.
Snapshot(t, b, s) == [tasks |-> t, timeBlocks |-> b, studySessions |-> s]

(***************************************************************************)
(* Week projection and cell resolver (Timetable, TimeCell).                *)
(***************************************************************************)
DAYS_OF_WEEK_INDICES == <<0, 1, 2, 3, 4, 5, 6>>
HOURS == 0 .. 23

\* weekDates: the day keys of the seven columns.
weekDates_fromSecondDay ==
    [k \in DOMAIN DAYS_OF_WEEK_INDICES |-> formatDay(addDays(weekStart, k))]

weekDates ==
    [k \in DOMAIN DAYS_OF_WEEK_INDICES |-> formatDay(addDays(weekStart, k - 1))]

\* weekTimeBlocks: the blocks whose day key is one of the week's.
weekTimeBlocks ==
    LET includes == {weekDates[k] : k \in DOMAIN weekDates}
    IN SelectSeq(timeBlocks, LAMBDA block : block.day \in includes)

\* The timeBlocks prop of the cells of column index (0..6).
columnTimeBlocks_whole(index) == weekTimeBlocks

columnTimeBlocks(index) ==
    LET day == weekDates[index + 1]
    IN SelectSeq(weekTimeBlocks, LAMBDA block : block.day = day)

blocksForCell(day, hour, blocks) ==
    SelectSeq(blocks, LAMBDA block :
        LET blockStartDate == NewDateFromISO(block.start)
            blockEndDate == NewDateFromISO(block.end)
            currentHourStart == setHours(NewDateFromDay(day), hour, 0, 0)
        IN \/ getHours(blockStartDate) = hour
           \/ (blockStartDate < currentHourStart /\ blockEndDate > currentHourStart))

isFirstOccurrence(block, hour) == getHours(NewDateFromISO(block.start)) = hour

spanningBlocks(day, hour, blocks) ==
    SelectSeq(blocksForCell(day, hour, blocks), LAMBDA block :
        getHours(NewDateFromISO(block.start)) # hour)

startingBlocksForCell_all(day, hour, blocks) == blocksForCell(day, hour, blocks)

startingBlocksForCell(day, hour, blocks) ==
    SelectSeq(blocksForCell(day, hour, blocks), LAMBDA block : isFirstOccurrence(block, hour))

\* The cell shows the indicator of blocks passing through the hour.
rendersIndicator(day, hour, blocks) == Len(spanningBlocks(day, hour, blocks)) > 0

\* The ids of the TimeBlockItems the cell renders, in order.
cellItems(day, hour, blocks) ==
    [k \in DOMAIN startingBlocksForCell(day, hour, blocks) |->
        startingBlocksForCell(day, hour, blocks)[k].id]

\* The cell renders the add dialog: no starting block and no spanning block.
rendersAddDialog_ignoresSpanning(day, hour, blocks) ==
    startingBlocksForCell(day, hour, blocks) = <<>>

rendersAddDialog(day, hour, blocks) ==
    /\ startingBlocksForCell(day, hour, blocks) = <<>>
    /\ Len(spanningBlocks(day, hour, blocks)) = 0

\* Block id is drawn as a TimeBlockItem (with its delete button): it is a
\* starting block of a cell of the shown week.  A block can start only in
\* the cell of its column and of its start's hour, so that cell is looked at.
rendersTimeBlockItem(id) ==
    \E i \in DOMAIN timeBlocks :
        /\ timeBlocks[i].id = id
        /\ \E index \in 0 .. 6 :
            /\ weekDates[index + 1] = timeBlocks[i].day
            /\ LET hour == getHours(NewDateFromISO(timeBlocks[i].start))
                   cell == startingBlocksForCell(weekDates[index + 1], hour,
                                                 columnTimeBlocks(index))
               IN \E j \in DOMAIN cell : cell[j].id = id

(***************************************************************************)
(* AddTimeBlockDialog.handleAdd                                            *)
(***************************************************************************)
COLORS ==
    <<"bg-red-200", "bg-blue-200", "bg-green-200", "bg-yellow-200",
      "bg-purple-200", "bg-pink-200", "bg-indigo-200", "bg-orange-200">>

\* The end handleAdd computes for a start and the duration state.
dialogEnd(start, duration) ==
    LET end == setHours(start, Plus(getHours(start), duration), 0, 0)
    IN IF StrictNotEqual(getDate(end), getDate(start))
       THEN setHours(end, 23, 59, 59)
       ELSE end

\* handleAdd returns before onAdd on a title that trims to nothing.
dialogRejects(title, duration) == Trim(title) = <<>>

\* end.toISOString() throws a RangeError on an Invalid Date.
dialogThrows(selectedDay, selectedHour, duration) ==
    dialogEnd(setHours(NewDateFromDay(selectedDay), selectedHour, 0, 0), duration) = NaN

\* The record handleAdd passes to onAdd.
dialogBlock(selectedDay, selectedHour, title, duration, color) ==
    LET start == setHours(NewDateFromDay(selectedDay), selectedHour, 0, 0)
        end == dialogEnd(start, duration)
    IN [title |-> title,
        start |-> toISOString(start),
        end |-> toISOString(end),
        day |-> selectedDay,
        color |-> color,
        taskId |-> Null]

(***************************************************************************)
(* Timetable.handleDragEnd                                                 *)
(***************************************************************************)
\* Block-to-block: the updates of the dragged block and of the target block.
swapActiveUpdate_keepsDay(activeBlock, overBlock) ==
    LET activeStart == NewDateFromISO(activeBlock.start)
        activeEnd == NewDateFromISO(activeBlock.end)
        newActiveStart == NewDateFromISO(overBlock.start)
        newActiveEnd == newActiveStart + (activeEnd - activeStart)
    IN [start |-> toISOString(newActiveStart),
        end |-> toISOString(newActiveEnd),
        day |-> activeBlock.day]

swapActiveUpdate(activeBlock, overBlock) ==
    LET activeStart == NewDateFromISO(activeBlock.start)
        activeEnd == NewDateFromISO(activeBlock.end)
        activeDurationMs == activeEnd - activeStart
        overStart == NewDateFromISO(overBlock.start)
        newActiveStart == overStart
        newActiveEnd == newActiveStart + activeDurationMs
    IN [start |-> toISOString(newActiveStart),
        end |-> toISOString(newActiveEnd),
        day |-> overBlock.day]

swapOverUpdate_activeDuration(activeBlock, overBlock) ==
    LET activeStart == NewDateFromISO(activeBlock.start)
        activeEnd == NewDateFromISO(activeBlock.end)
        newOverStart == activeStart
        newOverEnd == newOverStart + (activeEnd - activeStart)
    IN [start |-> toISOString(newOverStart),
        end |-> toISOString(newOverEnd),
        day |-> activeBlock.day]

swapOverUpdate(activeBlock, overBlock) ==
    LET activeStart == NewDateFromISO(activeBlock.start)
        overStart == NewDateFromISO(overBlock.start)
        overEnd == NewDateFromISO(overBlock.end)
        overDurationMs == overEnd - overStart
        newOverStart == activeStart
        newOverEnd == newOverStart + overDurationMs
    IN [start |-> toISOString(newOverStart),
        end |-> toISOString(newOverEnd),
        day |-> activeBlock.day]

\* Block-to-cell: the update of the dragged block.
cellUpdate_oneHour(activeBlock, day, hour) ==
    LET newStart == setHours(NewDateFromDay(day), hour, 0, 0)
        newEnd == newStart + SecPerHour
    IN [start |-> toISOString(newStart),
        end |-> toISOString(newEnd),
        day |-> day]

cellUpdate(activeBlock, day, hour) ==
    LET oldStart == NewDateFromISO(activeBlock.start)
        oldEnd == NewDateFromISO(activeBlock.end)
        durationMs == oldEnd - oldStart
        newStart == setHours(NewDateFromDay(day), hour, 0, 0)
        newEnd == newStart + durationMs
        clamped == IF getDate(newEnd) # getDate(newStart)
                   THEN setHours(newEnd, 23, 59, 59)
                   ELSE newEnd
    IN [start |-> toISOString(newStart),
        end |-> toISOString(clamped),
        day |-> day]

\* The drag-end event's target: nothing, a sortable block, or a cell.
OverNone == [kind |-> "none", id |-> Null, day |-> Null, hour |-> Null]
OverSortable(id) == [kind |-> "sortable", id |-> id, day |-> Null, hour |-> Null]
OverCell(day, hour) == [kind |-> "cell", id |-> Null, day |-> day, hour |-> hour]

\* The drop is on another block: active.id !== over.id && over.data.current?.sortable
isBlockDrop_noSelfCheck(active, over) == over.kind = "sortable"

isBlockDrop(active, over) == active # over.id /\ over.kind = "sortable"

\* The drop is on a cell: over.data.current?.day && over.data.current?.hour !== undefined
isCellDrop(over) == over.kind = "cell"

\* The block lists the block-to-block branch sets, in order: both updates when
\* both blocks are found in timeBlocks, none otherwise.
swapSets_withoutTarget(blocks, active, over) ==
    IF found(blocks, active)
    THEN <<updateTimeBlock(blocks, active,
                           [day |-> IF found(blocks, over.id)
                                    THEN find(blocks, over.id).day
                                    ELSE find(blocks, active).day])>>
    ELSE <<>>

swapSets_overFirst(blocks, active, over) ==
    IF found(blocks, active) /\ found(blocks, over.id)
    THEN LET activeBlock == find(blocks, active)
             overBlock == find(blocks, over.id)
             first == updateTimeBlock(blocks, overBlock.id,
                                      swapOverUpdate(activeBlock, overBlock))
         IN <<first,
              updateTimeBlock(first, activeBlock.id, swapActiveUpdate(activeBlock, overBlock))>>
    ELSE <<>>

swapSets(blocks, active, over) ==
    IF found(blocks, active) /\ found(blocks, over.id)
    THEN LET activeBlock == find(blocks, active)
             overBlock == find(blocks, over.id)
             first == updateTimeBlock(blocks, activeBlock.id,
                                      swapActiveUpdate(activeBlock, overBlock))
         IN <<first,
              updateTimeBlock(first, overBlock.id, swapOverUpdate(activeBlock, overBlock))>>
    ELSE <<>>

\* The block list the block-to-cell branch sets, when the block is found.
cellSets(blocks, active, over) ==
    IF found(blocks, active)
    THEN <<updateTimeBlock(blocks, find(blocks, active).id,
                           cellUpdate(find(blocks, active), over.day, over.hour))>>
    ELSE <<>>

\* The block lists handleDragEnd sets, in order (none, one or two).
dragEndSets(blocks, active, over) ==
    IF over.kind = "none" THEN <<>>
    ELSE IF isBlockDrop(active, over) THEN swapSets(blocks, active, over)
    ELSE IF isCellDrop(over) THEN cellSets(blocks, active, over)
    ELSE <<>>

(***************************************************************************)
(* AddTaskDialog.handleAdd                                                 *)
(***************************************************************************)
taskDialogRejects(title, deadline) == Trim(title) = <<>> \/ deadline = Null

taskDialogTask(title, deadline) ==
    [title |-> Trim(title),
     description |-> <<>>,
     deadline |-> toISOString(deadline),
     priority |-> "medium",
     label |-> "subjectOther",
     estimatedTime |-> 1,
     completed |-> FALSE]

(***************************************************************************)
(* State machine.                                                          *)
(***************************************************************************)
Duration(block) == NewDateFromISO(block.end) - NewDateFromISO(block.start)

\* The bound on block lengths.
WithinSpan(blocks) ==
    \A i \in DOMAIN blocks :
        Duration(blocks[i]) <= MaxBlockHours * SecPerHour

NoInput ==
    [op |-> "none", title |-> <<>>, text |-> <<>>,
     active |-> Null, over |-> OverNone, deadline |-> Null, outcome |-> "called",
     id |-> Null, arg |-> <<>>, hit |-> FALSE, result |-> <<>>]

Init ==
    /\ tz \in TimeZones
    /\ now = 30 * SecPerDay + 12 * SecPerHour - tz * SecPerHour
    /\ uuid = 0
    /\ tasks = <<>>
    /\ timeBlocks = <<>>
    /\ studySessions = <<>>
    /\ weekStart = startOfWeek(now)
    /\ activeId = Null
    /\ activeTimeBlock = {}
    /\ pressed = [prev |-> 0, next |-> 0]
    /\ saved = <<>>
    /\ last = NoInput

\* The user presses Add in the dialog of the empty cell (column index,
\* selectedHour) of the shown week, with title and text in its two fields.
AddTimeBlockDialog_handleAdd(index, selectedHour) ==
    /\ activeId = Null
    /\ rendersAddDialog(weekDates[index + 1], selectedHour, columnTimeBlocks(index))
    /\ \E title \in Titles, text \in DurationTexts :
        \E selectedDay \in {weekDates[index + 1]}, duration \in {parseInt(text)} :
            IF dialogRejects(title, duration)
            THEN /\ UNCHANGED <<uuid, timeBlocks>>
                 /\ saved' = <<>>
                 /\ last' = [NoInput EXCEPT !.op = "AddTimeBlockDialog.handleAdd",
                                            !.outcome = "returned"]
            ELSE IF dialogThrows(selectedDay, selectedHour, duration)
            THEN /\ UNCHANGED <<uuid, timeBlocks>>
                 /\ saved' = <<>>
                 /\ last' = [NoInput EXCEPT !.op = "AddTimeBlockDialog.handleAdd",
                                            !.outcome = "threw"]
            ELSE /\ uuid < MaxIds
                 /\ uuid' = uuid + 1
                 /\ timeBlocks' =
                        addTimeBlock(timeBlocks,
                                     dialogBlock(selectedDay, selectedHour, title, duration,
                                                 COLORS[1]),
                                     uuid + 1)
                 /\ WithinSpan(timeBlocks')
                 /\ saved' = <<Snapshot(tasks, timeBlocks', studySessions)>>
                 /\ last' = [NoInput EXCEPT !.op = "AddTimeBlockDialog.handleAdd",
                                            !.title = title, !.text = text]
    /\ UNCHANGED <<tz, now, pressed, tasks, studySessions, weekStart, activeId, activeTimeBlock>>

\* The user presses the delete button of a drawn block.
TimeBlockItem_onDelete(id) ==
    /\ activeId = Null
    /\ rendersTimeBlockItem(id)
    /\ timeBlocks' = deleteTimeBlock(timeBlocks, id)
    /\ saved' = <<Snapshot(tasks, timeBlocks', studySessions)>>
    /\ last' = [NoInput EXCEPT !.op = "deleteTimeBlock", !.active = id]
    /\ UNCHANGED <<tz, now, pressed, uuid, tasks, studySessions, weekStart, activeId, activeTimeBlock>>

\* A drag of a drawn block starts.
handleDragStart(id) ==
    /\ activeId = Null
    /\ rendersTimeBlockItem(id)
    /\ activeId' = id
    /\ activeTimeBlock' = {find(timeBlocks, id)}
    /\ saved' = <<>>
    /\ last' = [NoInput EXCEPT !.op = "handleDragStart", !.active = id]
    /\ UNCHANGED <<tz, now, pressed, uuid, tasks, timeBlocks, studySessions, weekStart>>

\* The drag ends over nothing, over a block or over a cell of the shown week.
handleDragEnd(over) ==
    \E sets \in {dragEndSets(timeBlocks, activeId, over)} :
       /\ activeId # Null
       /\ activeId' = Null
       /\ activeTimeBlock' = {}
       /\ timeBlocks' = IF sets = <<>> THEN timeBlocks ELSE sets[Len(sets)]
       /\ WithinSpan(timeBlocks')
       /\ saved' = [k \in DOMAIN sets |-> Snapshot(tasks, sets[k], studySessions)]
       /\ last' = [NoInput EXCEPT !.op = "handleDragEnd", !.active = activeId, !.over = over]
       /\ UNCHANGED <<tz, now, pressed, uuid, tasks, studySessions, weekStart>>

\* The user presses Add in the task dialog.
AddTaskDialog_handleAdd(title, deadline) ==
    /\ activeId = Null
    /\ IF taskDialogRejects(title, deadline)
       THEN /\ UNCHANGED <<uuid, tasks>>
            /\ saved' = <<>>
            /\ last' = [NoInput EXCEPT !.op = "AddTaskDialog.handleAdd",
                                       !.outcome = "returned"]
       ELSE /\ uuid < MaxIds
            /\ last' = [NoInput EXCEPT !.op = "AddTaskDialog.handleAdd",
                                       !.title = title, !.deadline = deadline]
            /\ uuid' = uuid + 1
            /\ tasks' = addTask(tasks, taskDialogTask(title, deadline), uuid + 1)
            /\ saved' = <<Snapshot(tasks', timeBlocks, studySessions)>>
    /\ UNCHANGED <<tz, now, pressed, timeBlocks, studySessions, weekStart, activeId, activeTimeBlock>>

\* The targets a drag may end over.
Overs ==
    LET dates == weekDates
    IN {OverNone}
        \cup {OverSortable(id) : id \in 1 .. uuid}
        \cup {OverCell(dates[index + 1], hour) : index \in UserDayIndices, hour \in UserHours}

\* The deadlines the calendar of the task dialog may give: none, or tomorrow.
Deadlines == {Null, addDays(setHours(now, 0, 0, 0), 1)}

Next ==
    \/ \E index \in UserDayIndices, hour \in UserHours :
            AddTimeBlockDialog_handleAdd(index, hour)
    \/ \E id \in 1 .. uuid : TimeBlockItem_onDelete(id)
    \/ \E id \in 1 .. uuid : handleDragStart(id)
    \/ \E over \in Overs : handleDragEnd(over)

\* The timetable: the add dialog, the delete button and the drag handlers.
Spec == Init /\ [][Next]_vars

\* The user presses the completion toggle of a task.
handleToggleComplete(taskId) ==
    /\ IF found(tasks, taskId)
       THEN /\ tasks' = updateTask(tasks, taskId, [completed |-> ~find(tasks, taskId).completed])
            /\ saved' = <<Snapshot(tasks', timeBlocks, studySessions)>>
       ELSE /\ UNCHANGED tasks
            /\ saved' = <<>>
    /\ last' = [NoInput EXCEPT !.op = "handleToggleComplete", !.id = taskId,
                               !.hit = found(tasks, taskId)]
    /\ UNCHANGED <<tz, now, pressed, uuid, timeBlocks, studySessions, weekStart,
                   activeId, activeTimeBlock>>

\* Time passes: new Date() gives a later instant.
Tick ==
    /\ now - (30 * SecPerDay + 12 * SecPerHour - tz * SecPerHour) < MaxTicks * SecPerHour
    /\ now' = now + SecPerHour
    /\ saved' = <<>>
    /\ last' = [NoInput EXCEPT !.op = "Tick"]
    /\ UNCHANGED <<tz, pressed, uuid, tasks, timeBlocks, studySessions, weekStart,
                   activeId, activeTimeBlock>>

NextTasks ==
    \E title \in TaskTitles, deadline \in Deadlines : AddTaskDialog_handleAdd(title, deadline)

\* The deadline tracker: the task dialog.
SpecTasks == Init /\ [][NextTasks]_vars

(***************************************************************************)
(* The store called directly (useStudyFlowStore's actions and queries).    *)
(***************************************************************************)
\* Arguments a caller may pass.  A taskId is absent or the id of a task in the list.
TaskIds == {Null} \cup {tasks[i].id : i \in DOMAIN tasks}

TaskInputs == {taskDialogTask(<<"T">>, deadline) : deadline \in {now, addDays(now, 1)}}

TaskUpdates == {[completed |-> TRUE]}

TimeBlockInputs ==
    {Merge(dialogBlock(day, 9, <<"S">>, 1, COLORS[1]), [taskId |-> taskId]) :
        day \in {formatDay(now), formatDay(addDays(now, 1))}, taskId \in TaskIds}

TimeBlockUpdates ==
    {cellUpdate(dialogBlock(formatDay(now), 9, <<"S">>, 1, COLORS[1]), formatDay(now), 14)}

StudySessionInputs ==
    {[taskId |-> taskId, title |-> <<"S">>, startTime |-> toISOString(now),
      endTime |-> toISOString(now + SecPerHour), duration |-> 60, productivity |-> 3] :
        taskId \in TaskIds}

StudySessionUpdates == {[productivity |-> 5]}

\* What set() publishes: the state with the changed collection.
\* hit: the id was in the collection when the action was called.
Store_set(op, id, arg, hit) ==
    /\ saved' = <<Snapshot(tasks', timeBlocks', studySessions')>>
    /\ last' = [NoInput EXCEPT !.op = op, !.id = id, !.arg = arg, !.hit = hit]
    /\ UNCHANGED <<tz, now, pressed, weekStart, activeId, activeTimeBlock>>

Store_addTask(task) ==
    /\ uuid < MaxIds
    /\ uuid' = uuid + 1
    /\ tasks' = addTask(tasks, task, uuid + 1)
    /\ UNCHANGED <<timeBlocks, studySessions>>
    /\ Store_set("addTask", uuid + 1, task, FALSE)

Store_updateTask(id, updates) ==
    /\ tasks' = updateTask(tasks, id, updates)
    /\ UNCHANGED <<uuid, timeBlocks, studySessions>>
    /\ Store_set("updateTask", id, updates, found(tasks, id))

Store_completeTask(id) ==
    /\ tasks' = completeTask(tasks, id)
    /\ UNCHANGED <<uuid, timeBlocks, studySessions>>
    /\ Store_set("completeTask", id, <<>>, found(tasks, id))

Store_deleteTask_cascades(id) ==
    /\ tasks' = deleteTask(tasks, id)
    /\ timeBlocks' = SelectSeq(timeBlocks, LAMBDA block : block.taskId # id)
    /\ studySessions' = SelectSeq(studySessions, LAMBDA session : session.taskId # id)
    /\ UNCHANGED uuid
    /\ Store_set("deleteTask", id, <<>>, found(tasks, id))

Store_deleteTask(id) ==
    /\ tasks' = deleteTask(tasks, id)
    /\ UNCHANGED <<uuid, timeBlocks, studySessions>>
    /\ Store_set("deleteTask", id, <<>>, found(tasks, id))

Store_addTimeBlock(timeBlock) ==
    /\ uuid < MaxIds
    /\ uuid' = uuid + 1
    /\ timeBlocks' = addTimeBlock(timeBlocks, timeBlock, uuid + 1)
    /\ UNCHANGED <<tasks, studySessions>>
    /\ Store_set("addTimeBlock", uuid + 1, timeBlock, FALSE)

Store_updateTimeBlock(id, updates) ==
    /\ timeBlocks' = updateTimeBlock(timeBlocks, id, updates)
    /\ UNCHANGED <<uuid, tasks, studySessions>>
    /\ Store_set("updateTimeBlock", id, updates, found(timeBlocks, id))

Store_deleteTimeBlock(id) ==
    /\ timeBlocks' = deleteTimeBlock(timeBlocks, id)
    /\ UNCHANGED <<uuid, tasks, studySessions>>
    /\ Store_set("deleteTimeBlock", id, <<>>, found(timeBlocks, id))

Store_addStudySession(session) ==
    /\ uuid < MaxIds
    /\ uuid' = uuid + 1
    /\ studySessions' = addStudySession(studySessions, session, uuid + 1)
    /\ UNCHANGED <<tasks, timeBlocks>>
    /\ Store_set("addStudySession", uuid + 1, session, FALSE)

Store_updateStudySession(id, updates) ==
    /\ studySessions' = updateStudySession(studySessions, id, updates)
    /\ UNCHANGED <<uuid, tasks, timeBlocks>>
    /\ Store_set("updateStudySession", id, updates, found(studySessions, id))

Store_deleteStudySession(id) ==
    /\ studySessions' = deleteStudySession(studySessions, id)
    /\ UNCHANGED <<uuid, tasks, timeBlocks>>
    /\ Store_set("deleteStudySession", id, <<>>, found(studySessions, id))

\* A query: nothing is set.
Store_getTasksForToday ==
    /\ last' = [NoInput EXCEPT !.op = "getTasksForToday",
                               !.result = getTasksForToday(tasks, timeBlocks)]
    /\ saved' = <<>>
    /\ UNCHANGED <<tz, now, pressed, uuid, tasks, timeBlocks, studySessions, weekStart,
                   activeId, activeTimeBlock>>

\* The ids a caller may pass: those handed out so far and one that was not.
StoreIds == 1 .. uuid + 1

NextStore ==
    \/ \E task \in TaskInputs : Store_addTask(task)
    \/ \E id \in StoreIds, updates \in TaskUpdates : Store_updateTask(id, updates)
    \/ \E id \in StoreIds : Store_completeTask(id)
    \/ \E id \in StoreIds : Store_deleteTask(id)
    \/ \E timeBlock \in TimeBlockInputs : Store_addTimeBlock(timeBlock)
    \/ \E id \in StoreIds, updates \in TimeBlockUpdates : Store_updateTimeBlock(id, updates)
    \/ \E id \in StoreIds : Store_deleteTimeBlock(id)
    \/ \E session \in StudySessionInputs : Store_addStudySession(session)
    \/ \E id \in StoreIds, updates \in StudySessionUpdates :
            Store_updateStudySession(id, updates)
    \/ \E id \in StoreIds : Store_deleteStudySession(id)
    \/ Store_getTasksForToday

\* The store: its actions and getTasksForToday, on any arguments.
SpecStore == Init /\ [][NextStore]_vars

(***************************************************************************)
(* The deadline tracker over the store: tasks are made by the dialog, then *)
(* updated, completed and toggled while the clock advances.                *)
(***************************************************************************)
\* The fields updateTask is given: its type leaves out id and createdAt.
TrackerUpdates == {[title |-> <<"U">>, priority |-> "high"]}

NextTracker ==
    \/ \E title \in TaskTitles, deadline \in Deadlines : AddTaskDialog_handleAdd(title, deadline)
    \/ \E taskId \in StoreIds : handleToggleComplete(taskId)
    \/ \E id \in StoreIds, updates \in TrackerUpdates : Store_updateTask(id, updates)
    \/ \E id \in StoreIds : Store_completeTask(id)
    \/ Tick

\* The deadline tracker: the task dialog, the toggle, updateTask, completeTask.
SpecTracker == Init /\ [][NextTracker]_vars

(***************************************************************************)
(* The analytics query over the store: sessions are added, then             *)
(* getProductivityData is asked for a number of days.                      *)
(***************************************************************************)
\* Sessions started yesterday or today, rated 3 or 4.
AnalyticsSessions ==
    {[taskId |-> Null, title |-> <<"S">>, startTime |-> toISOString(startTime),
      endTime |-> toISOString(startTime + SecPerHour), duration |-> 60,
      productivity |-> productivity] :
        startTime \in {now - SecPerDay, now}, productivity \in {3, 4}}

Store_getProductivityData(days) ==
    /\ last' = [NoInput EXCEPT !.op = "getProductivityData", !.arg = days,
                               !.result = getProductivityData(studySessions, days)]
    /\ saved' = <<>>
    /\ UNCHANGED <<tz, now, pressed, uuid, tasks, timeBlocks, studySessions, weekStart,
                   activeId, activeTimeBlock>>

NextAnalytics ==
    \/ \E session \in AnalyticsSessions : Store_addStudySession(session)
    \/ \E days \in 0 .. MaxDays : Store_getProductivityData(days)

\* The store's sessions and getProductivityData.
SpecAnalytics == Init /\ [][NextAnalytics]_vars

(***************************************************************************)
(* TimeCell on its own: one cell of the shown week rendered over a block   *)
(* list the timetable can hold.                                            *)
(***************************************************************************)
\* The records the add dialog passes to onAdd from the user's cells, for a
\* title and a duration it accepts.
CellBlocks ==
    {dialogBlock(weekDates[index + 1], hour, title, parseInt(text), COLORS[1]) :
        index \in UserDayIndices, hour \in UserHours,
        title \in {t \in Titles : ~dialogRejects(t, 1)},
        text \in {t \in DurationTexts : parseInt(t) # NaN}}

\* The block lists made of them, with the ids in the order uuidv4 hands them out.
CellBlockLists ==
    {[k \in DOMAIN list |-> Merge(list[k], [id |-> k])] :
        list \in UNION {[1 .. n -> CellBlocks] : n \in 0 .. MaxIds}}

InitCells ==
    /\ tz \in TimeZones
    /\ now = 30 * SecPerDay + 12 * SecPerHour - tz * SecPerHour
    /\ weekStart = startOfWeek(now)
    /\ timeBlocks \in CellBlockLists
    /\ uuid = Len(timeBlocks)
    /\ tasks = <<>>
    /\ studySessions = <<>>
    /\ activeId = Null
    /\ activeTimeBlock = {}
    /\ pressed = [prev |-> 0, next |-> 0]
    /\ saved = <<>>
    /\ last = NoInput

\* The cell (column index, hour) of the shown week is rendered: what it is
\* given and what it draws.
TimeCell(index, hour) ==
    /\ last.op = "none"
    /\ \E day \in {weekDates[index + 1]}, blocks \in {columnTimeBlocks(index)} :
          last' = [NoInput EXCEPT
                       !.op = "TimeCell",
                       !.arg = [day |-> day,
                                hour |-> hour,
                                timeBlocks |-> blocks,
                                items |-> cellItems(day, hour, blocks),
                                spanningBlocks |-> spanningBlocks(day, hour, blocks),
                                indicator |-> rendersIndicator(day, hour, blocks),
                                addDialog |-> rendersAddDialog(day, hour, blocks)]]
    /\ UNCHANGED <<tz, now, pressed, uuid, tasks, timeBlocks, studySessions, weekStart,
                   activeId, activeTimeBlock, saved>>

NextCells == \E index \in 0 .. 6, hour \in HOURS : TimeCell(index, hour)

\* The cell resolver, over the block lists of the user's cells.
SpecCells == InitCells /\ [][NextCells]_vars

(***************************************************************************)
(* Moves on their own: three-hour blocks as the add dialog made them are    *)
(* dragged to cells of the shown week, any number of times.                *)
(***************************************************************************)
\* The records the add dialog passes to onAdd from the 9:00 cells of the
\* user's columns, for a title it accepts and a duration of three hours.
CreatedHours == 3
MoveBlocks ==
    {dialogBlock(weekDates[index + 1], 9, title, CreatedHours, COLORS[1]) :
        index \in UserDayIndices, title \in {t \in Titles : ~dialogRejects(t, 1)}}

MoveBlockLists ==
    {[k \in DOMAIN list |-> Merge(list[k], [id |-> k])] :
        list \in UNION {[1 .. n -> MoveBlocks] : n \in 0 .. MaxIds}}

InitMoves ==
    /\ tz \in TimeZones
    /\ now = 30 * SecPerDay + 12 * SecPerHour - tz * SecPerHour
    /\ weekStart = startOfWeek(now)
    /\ timeBlocks \in MoveBlockLists
    /\ uuid = Len(timeBlocks)
    /\ tasks = <<>>
    /\ studySessions = <<>>
    /\ activeId = Null
    /\ activeTimeBlock = {}
    /\ pressed = [prev |-> 0, next |-> 0]
    /\ saved = <<>>
    /\ last = NoInput

NextMoves ==
    \/ \E id \in 1 .. uuid : handleDragStart(id)
    \/ \E index \in UserDayIndices, hour \in UserHours :
            handleDragEnd(OverCell(weekDates[index + 1], hour))

\* The block-to-cell branch of handleDragEnd, over dialog-made block lists.
SpecMoves == InitMoves /\ [][NextMoves]_vars

(***************************************************************************)
(* Swaps on their own: blocks as the add dialog made them are dropped onto *)
(* one another, any number of times.                                       *)
(***************************************************************************)
NextSwaps ==
    \/ \E id \in 1 .. uuid : handleDragStart(id)
    \/ \E id \in 1 .. uuid : handleDragEnd(OverSortable(id))

\* The block-to-block branch of handleDragEnd, over dialog-made block lists.
SpecSwaps == InitCells /\ [][NextSwaps]_vars

(***************************************************************************)
(* The week shown: the week buttons over a stored block list.              *)
(***************************************************************************)
\* The records the add dialog passes to onAdd from the first and the last
\* column of the week shown at first, from the last column of the week
\* before it and from the first column of the week after it.
WeekBlocks ==
    {dialogBlock(cell[1], cell[2], title, 3, COLORS[1]) :
        cell \in {<<weekDates[1] - 1, 23>>, <<weekDates[1], 9>>,
                  <<weekDates[7], 23>>, <<weekDates[7] + 1, 9>>},
        title \in {t \in Titles : ~dialogRejects(t, 1)}}

WeekBlockLists ==
    {[k \in DOMAIN list |-> Merge(list[k], [id |-> k])] :
        list \in UNION {[1 .. n -> WeekBlocks] : n \in 0 .. MaxIds}}

InitWeek ==
    /\ tz \in TimeZones
    /\ now = 30 * SecPerDay + 12 * SecPerHour - tz * SecPerHour
    /\ weekStart = startOfWeek(now)
    /\ timeBlocks \in WeekBlockLists
    /\ uuid = Len(timeBlocks)
    /\ tasks = <<>>
    /\ studySessions = <<>>
    /\ activeId = Null
    /\ activeTimeBlock = {}
    /\ pressed = [prev |-> 0, next |-> 0]
    /\ saved = <<>>
    /\ last = NoInput

handlePrevWeek ==
    /\ pressed.prev + pressed.next < MaxPresses
    /\ weekStart' = addDays(weekStart, -7)
    /\ pressed' = [pressed EXCEPT !.prev = @ + 1]
    /\ saved' = <<>>
    /\ last' = [NoInput EXCEPT !.op = "handlePrevWeek"]
    /\ UNCHANGED <<tz, now, uuid, tasks, timeBlocks, studySessions, activeId, activeTimeBlock>>

handleNextWeek_sixDays ==
    /\ pressed.prev + pressed.next < MaxPresses
    /\ weekStart' = addDays(weekStart, 6)
    /\ pressed' = [pressed EXCEPT !.next = @ + 1]
    /\ saved' = <<>>
    /\ last' = [NoInput EXCEPT !.op = "handleNextWeek"]
    /\ UNCHANGED <<tz, now, uuid, tasks, timeBlocks, studySessions, activeId, activeTimeBlock>>

handleNextWeek ==
    /\ pressed.prev + pressed.next < MaxPresses
    /\ weekStart' = addDays(weekStart, 7)
    /\ pressed' = [pressed EXCEPT !.next = @ + 1]
    /\ saved' = <<>>
    /\ last' = [NoInput EXCEPT !.op = "handleNextWeek"]
    /\ UNCHANGED <<tz, now, uuid, tasks, timeBlocks, studySessions, activeId, activeTimeBlock>>

NextWeek == handlePrevWeek \/ handleNextWeek

\* The week projection under the week buttons.
SpecWeek == InitWeek /\ [][NextWeek]_vars

(***************************************************************************)
(* Properties.                                                             *)
(***************************************************************************)
start(block) == NewDateFromISO(block.start)
end(block) == NewDateFromISO(block.end)

\* The local instant h:00:00 of calendar day D.
LocalHour(D, h) == D * SecPerDay + h * SecPerHour - tz * SecPerHour

\* 23:59:59 on the local calendar day of instant t.
EndOfLocalDay(t) == LocalDay(t) * SecPerDay + (SecPerDay - 1) - tz * SecPerHour

\* This step is a run of handleAdd of the time-block dialog that called addTimeBlock.
StepAdds ==
    /\ last'.op = "AddTimeBlockDialog.handleAdd"
    /\ last'.outcome = "called"
    /\ Len(timeBlocks') = Len(timeBlocks) + 1

\* This step is a drag-end of the dragged block over a cell, the block being in the list.
StepMovesToCell ==
    /\ last'.op = "handleDragEnd"
    /\ last'.over.kind = "cell"
    /\ activeId # Null
    /\ found(timeBlocks, activeId)

\* This step is a drag-end of the dragged block over another block, both in the list.
StepSwaps ==
    /\ last'.op = "handleDragEnd"
    /\ last'.over.kind = "sortable"
    /\ activeId # Null
    /\ last'.over.id # activeId
    /\ found(timeBlocks, activeId)
    /\ found(timeBlocks, last'.over.id)

ClampedToStartDay(block, duration) ==
    start(block) + duration > EndOfLocalDay(start(block))
        => end(block) = EndOfLocalDay(start(block))

\* C2: a block created by the dialog, or moved into a cell, whose start plus
\* duration falls after the last second of the start's day ends at 23:59:59 of
\* the start's day.
C2_EndOfDayClamp ==
    [][/\ StepAdds =>
            ClampedToStartDay(timeBlocks'[Len(timeBlocks')],
                              parseInt(last'.text) * SecPerHour)
       /\ StepMovesToCell =>
            ClampedToStartDay(find(timeBlocks', activeId),
                              Duration(find(timeBlocks, activeId)))]_vars

\* C3: every block ends on the calendar day it starts on.
C3_NoBlockSpansDays ==
    \A i \in DOMAIN timeBlocks :
        LocalDay(end(timeBlocks[i])) = LocalDay(start(timeBlocks[i]))

\* C4: a drop of block A onto another block B exchanges their starts and their
\* days and gives each its own earlier duration, all taken from the state
\* before the drop.
C4_SwapSymmetry ==
    [][StepSwaps =>
            LET A == find(timeBlocks, activeId)
                B == find(timeBlocks, last'.over.id)
                A2 == find(timeBlocks', activeId)
                B2 == find(timeBlocks', last'.over.id)
            IN /\ A2.start = B.start
               /\ B2.start = A.start
               /\ A2.day = B.day
               /\ B2.day = A.day
               /\ end(A2) = start(A2) + Duration(A)
               /\ end(B2) = start(B2) + Duration(B)]_vars

\* Two blocks of different days, starts and durations have just been swapped.
C4_Witness ==
    /\ last.op = "handleDragEnd"
    /\ last.over.kind = "sortable"
    /\ Len(saved) = 2
    /\ LET A == find(timeBlocks, last.active)
           B == find(timeBlocks, last.over.id)
       IN /\ A.day # B.day
          /\ getHours(start(A)) # getHours(start(B))
          /\ Duration(A) # Duration(B)

\* C5: every block has end > start.
C5_EndAfterStart ==
    \A i \in DOMAIN timeBlocks : end(timeBlocks[i]) > start(timeBlocks[i])

\* C6: a drop of a block onto itself issues no store update and leaves the
\* whole store as it was.
C6_SelfDropIsNoOp ==
    [][(/\ last'.op = "handleDragEnd"
        /\ last'.over.kind = "sortable"
        /\ last'.over.id = activeId)
            => (saved' = <<>> /\ UNCHANGED store)]_vars

\* A block in the list has just been dropped onto itself.
C6_Witness ==
    /\ last.op = "handleDragEnd"
    /\ last.over.kind = "sortable"
    /\ last.over.id = last.active
    /\ found(timeBlocks, last.active)

\* C7: a block moved to cell (D, h), where its duration fits before the end
\* of day D, starts at h:00:00 of day D, keeps its duration and has day key D.
C7_CellMoveResult ==
    [][StepMovesToCell =>
            LET D == last'.over.day
                h == last'.over.hour
                duration == Duration(find(timeBlocks, activeId))
                after == find(timeBlocks', activeId)
            IN LocalHour(D, h) + duration <= LocalHour(D, 24) - 1
                   => /\ start(after) = LocalHour(D, h)
                      /\ end(after) = start(after) + duration
                      /\ after.day = D]_vars

\* C8: a move to a cell is one updateTimeBlock call setting start, end and
\* day of the moved block; its other fields, the other blocks and every
\* block's place in the list stay.
C8_CellMoveFrame ==
    [][StepMovesToCell =>
            /\ Len(saved') = 1
            /\ saved'[1].timeBlocks = timeBlocks'
            /\ Len(timeBlocks') = Len(timeBlocks)
            /\ \A i \in DOMAIN timeBlocks :
                IF timeBlocks[i].id = activeId
                THEN /\ timeBlocks'[i].id = timeBlocks[i].id
                     /\ timeBlocks'[i].title = timeBlocks[i].title
                     /\ timeBlocks'[i].color = timeBlocks[i].color
                     /\ timeBlocks'[i].taskId = timeBlocks[i].taskId
                     /\ timeBlocks'[i].day = last'.over.day
                     /\ DOMAIN timeBlocks'[i] = DOMAIN timeBlocks[i]
                ELSE timeBlocks'[i] = timeBlocks[i]]_vars

\* The first of two blocks has just been moved to a cell of another day.
C8_Witness ==
    /\ last.op = "handleDragEnd"
    /\ last.over.kind = "cell"
    /\ Len(saved) = 1
    /\ Len(timeBlocks) = 2
    /\ timeBlocks[1].id = last.active
    /\ timeBlocks[1].day = last.over.day
    /\ timeBlocks[2].day # last.over.day

\* This step is a drag-end of the dragged block, which is in the list, over a
\* block that is not.
StepDropsOnMissing ==
    /\ last'.op = "handleDragEnd"
    /\ last'.over.kind = "sortable"
    /\ activeId # Null
    /\ last'.over.id # activeId
    /\ found(timeBlocks, activeId)
    /\ ~found(timeBlocks, last'.over.id)

\* C9 (as claimed): when the target block is no longer in the store at
\* drag-end, the update of the moved block is still applied.
C9_FirstUpdateStands ==
    [][StepDropsOnMissing => saved' # <<>>]_vars

\* C9 (amended): when the target block is not in the block list at drag-end,
\* no update is issued and the store stays as it was.
C9_MissingTargetIsNoOp ==
    [][StepDropsOnMissing => (saved' = <<>> /\ UNCHANGED store)]_vars

\* A block in the list has just been dropped on a block that had been deleted.
C9_Witness ==
    /\ last.op = "handleDragEnd"
    /\ last.over.kind = "sortable"
    /\ last.over.id # last.active
    /\ found(timeBlocks, last.active)
    /\ ~found(timeBlocks, last.over.id)

\* C10: the dialogs call the store's add only with a title that does not trim
\* to nothing and, for a time block, a duration that is a number above 0, for
\* a task, a deadline.
C10_InvalidInputRejected ==
    /\ (last.op = "AddTimeBlockDialog.handleAdd" /\ last.outcome = "called")
            => /\ Trim(last.title) # <<>>
               /\ parseInt(last.text) # NaN
               /\ parseInt(last.text) > 0
    /\ (last.op = "AddTaskDialog.handleAdd" /\ last.outcome = "called")
            => /\ Trim(last.title) # <<>>
               /\ last.deadline # Null

\* The ids of a list, in order.
Ids(list) == [i \in DOMAIN list |-> list[i].id]

\* This step is a call of the store action op.
StepCalls(op) == last'.op = op /\ last'.outcome = "called"

\* C11: addTimeBlock appends one record with the caller's fields and an id no
\* block had, and returns that id; the ids of the block list are always
\* pairwise distinct.
C11_AddAppendsFreshId ==
    /\ [](\A i, j \in DOMAIN timeBlocks : timeBlocks[i].id = timeBlocks[j].id => i = j)
    /\ [][StepCalls("addTimeBlock") =>
            /\ Len(timeBlocks') = Len(timeBlocks) + 1
            /\ SubSeq(timeBlocks', 1, Len(timeBlocks)) = timeBlocks
            /\ \A f \in DOMAIN last'.arg :
                    timeBlocks'[Len(timeBlocks')][f] = last'.arg[f]
            /\ DOMAIN timeBlocks'[Len(timeBlocks')] = DOMAIN last'.arg \cup {"id"}
            /\ timeBlocks'[Len(timeBlocks')].id = last'.id
            /\ ~found(timeBlocks, last'.id)]_vars

\* A block has just been added behind another one.
C11_Witness ==
    /\ last.op = "addTimeBlock"
    /\ Len(timeBlocks) = 2
    /\ timeBlocks[2].id = last.id

\* C12: an update, a completion or a deletion called with an id its
\* collection does not hold leaves the three collections as they were.
C12_AbsentIdIsNoOp ==
    [][(\/ /\ (StepCalls("updateTask") \/ StepCalls("completeTask") \/ StepCalls("deleteTask"))
           /\ ~found(tasks, last'.id)
        \/ /\ (StepCalls("updateTimeBlock") \/ StepCalls("deleteTimeBlock"))
           /\ ~found(timeBlocks, last'.id)
        \/ /\ (StepCalls("updateStudySession") \/ StepCalls("deleteStudySession"))
           /\ ~found(studySessions, last'.id))
            => UNCHANGED store]_vars

\* deleteTimeBlock has just been called with an id no block has, on a list
\* that holds blocks.
C12_Witness ==
    /\ last.op = "deleteTimeBlock"
    /\ ~last.hit
    /\ timeBlocks # <<>>

\* C13: updateTimeBlock with an id in the list gives the matching record the
\* supplied fields and leaves its other fields, its id, the other records,
\* the length and the order as they were.
C13_UpdateFrame ==
    [][(StepCalls("updateTimeBlock") /\ found(timeBlocks, last'.id)) =>
            /\ Ids(timeBlocks') = Ids(timeBlocks)
            /\ \A i \in DOMAIN timeBlocks :
                IF timeBlocks[i].id = last'.id
                THEN /\ DOMAIN timeBlocks'[i] = DOMAIN timeBlocks[i] \cup DOMAIN last'.arg
                     /\ \A f \in DOMAIN timeBlocks'[i] :
                            timeBlocks'[i][f] = IF f \in DOMAIN last'.arg
                                                THEN last'.arg[f]
                                                ELSE timeBlocks[i][f]
                ELSE timeBlocks'[i] = timeBlocks[i]]_vars

\* The first of two blocks has just been updated and its day changed.
C13_Witness ==
    /\ last.op = "updateTimeBlock"
    /\ last.hit
    /\ Len(timeBlocks) = 2
    /\ timeBlocks[1].id = last.id
    /\ timeBlocks[1].start = last.arg.start
    /\ timeBlocks[1].start # timeBlocks[2].start

C20_NoCascade ==
    [][StepCalls("deleteTask") =>
            /\ timeBlocks' = timeBlocks
            /\ studySessions' = studySessions
            /\ \A k \in DOMAIN getTasksForToday(tasks', timeBlocks') :
                  \E i \in DOMAIN tasks' :
                      tasks'[i] = getTasksForToday(tasks', timeBlocks')[k]]_vars

\* A task has just been deleted that a block of today names, and another
\* task is left.
C20_Witness ==
    /\ last.op = "deleteTask"
    /\ last.hit
    /\ \E i \in DOMAIN timeBlocks :
          timeBlocks[i].taskId = last.id /\ timeBlocks[i].day = formatDay(now)
    /\ ~found(tasks, last.id)

\* The elements of a sequence.
Range(seq) == {seq[k] : k \in DOMAIN seq}

\* A cell has been rendered: what it was given and what it drew.
Rendered == last.op = "TimeCell"
cell == last.arg

\* C15: in every cell, a block of the cell's day is rendered as a starting
\* block iff the hour of day of its start is the cell's hour.
C15_StartingClassification ==
    Rendered =>
        \A block \in Range(cell.timeBlocks) :
            block.id \in Range(cell.items) <=> getHours(start(block)) = cell.hour

\* The 9:00 cell of a column of two blocks draws one of them.
C15_Witness ==
    /\ Rendered
    /\ cell.hour = 9
    /\ Len(cell.items) = 1
    /\ Len(cell.timeBlocks) = 2

\* C16: in every cell, a block of the cell's day is a spanning block iff its
\* start is before the cell's hour boundary (h:00:00 of the cell's day), its
\* end is after it and it does not start in the cell's hour.
C16_SpanningClassification ==
    Rendered =>
        \A block \in Range(cell.timeBlocks) :
            block \in Range(cell.spanningBlocks)
                <=> /\ start(block) < LocalHour(cell.day, cell.hour)
                    /\ end(block) > LocalHour(cell.day, cell.hour)
                    /\ getHours(start(block)) # cell.hour

\* C16 where the local zone is not west of UTC.
C16_SpanningEastOfUTC == tz >= 0 => C16_SpanningClassification

\* C17: a cell offers the add dialog iff no block of its day starts in its
\* hour and none spans it; a cell with spanning blocks only shows the
\* indicator, no block item and no add dialog; a cell renders an item for
\* every block that starts in its hour.
C17_EmptyCellRule ==
    Rendered =>
        LET starting == {block \in Range(cell.timeBlocks) : getHours(start(block)) = cell.hour}
            spanning == Range(cell.spanningBlocks)
        IN /\ cell.addDialog <=> (starting = {} /\ spanning = {})
           /\ (starting = {} /\ spanning # {}) =>
                  (cell.indicator /\ cell.items = <<>> /\ ~cell.addDialog)
           /\ Range(cell.items) = {block.id : block \in starting}
           /\ Len(cell.items) = Cardinality(starting)

\* A cell that draws two blocks has been rendered.
C17_Witness ==
    /\ Rendered
    /\ Len(cell.items) = 2
    /\ ~cell.addDialog

\* A cell that blocks only span has been rendered.
C17_WitnessSpanned ==
    /\ Rendered
    /\ cell.items = <<>>
    /\ cell.indicator
    /\ ~cell.addDialog

\* The calendar day of the anchor.
Anchor == LocalDay(weekStart)

\* C18: the day keys are the anchor's day and the six days after it, in
\* order; the week's blocks are the stored blocks with one of these keys, in
\* store order; each column gets the stored blocks with its key.
C18_WeekProjection ==
    /\ weekDates = [k \in 1 .. 7 |-> Anchor + k - 1]
    /\ weekTimeBlocks =
          SelectSeq(timeBlocks, LAMBDA block : block.day \in Anchor .. Anchor + 6)
    /\ \A index \in 0 .. 6 :
          columnTimeBlocks(index) =
              SelectSeq(timeBlocks, LAMBDA block : block.day = Anchor + index)

\* After a press of next week, one stored block is in the shown week, as its
\* first day, and one is not.
C18_Witness ==
    /\ pressed.next > pressed.prev
    /\ Len(timeBlocks) = 2
    /\ Len(weekTimeBlocks) = 1
    /\ Len(columnTimeBlocks(0)) = 1

\* C19: after n presses of next week and m of previous week the anchor is
\* the first anchor plus 7 * (n - m) days.
C19_WeekNavigation ==
    /\ weekStart = startOfWeek(now) + 7 * (pressed.next - pressed.prev) * SecPerDay
    /\ Anchor = LocalDay(startOfWeek(now)) + 7 * (pressed.next - pressed.prev)

\* Next week and then previous week have been pressed.
C19_Witness ==
    /\ pressed.next = 1
    /\ pressed.prev = 1
    /\ last.op = "handlePrevWeek"

\* C21: under updateTask, completeTask and the completion toggle every task
\* keeps the id and the createdAt addTask gave it; completeTask changes only
\* `completed`, to true, and calling it again changes nothing.
C21_IdentityIsFixed ==
    [][/\ \A i \in DOMAIN tasks :
            /\ i \in DOMAIN tasks'
            /\ tasks'[i].id = tasks[i].id
            /\ tasks'[i].createdAt = tasks[i].createdAt
       /\ Len(tasks') > Len(tasks) =>
            /\ tasks'[Len(tasks')].id = uuid'
            /\ tasks'[Len(tasks')].createdAt = toISOString(now)
       /\ StepCalls("completeTask") =>
            /\ tasks' = [i \in DOMAIN tasks |->
                            IF tasks[i].id = last'.id
                            THEN [tasks[i] EXCEPT !.completed = TRUE]
                            ELSE tasks[i]]
            /\ completeTask(tasks', last'.id) = tasks'
      ]_vars

\* A task made an hour ago has been updated and then completed.
C21_Witness ==
    /\ last.op = "completeTask"
    /\ last.hit
    /\ \E i \in DOMAIN tasks :
            /\ tasks[i].id = last.id
            /\ tasks[i].completed
            /\ tasks[i].title = <<"U">>
            /\ tasks[i].createdAt # toISOString(now)

\* The record with its start, end and day replaced.
Placed(block, startISO, endISO, day) ==
    [block EXCEPT !.start = startISO, !.end = endISO, !.day = day]

\* C22: a swap is two store updates in a fixed order, the moved block first
\* and the target second, each setting start, end and day of one block; after
\* the first the store holds a state where the moved block already has the
\* target's start and day and the target is unmodified.
C22_SwapIsTwoUpdates ==
    [][StepSwaps =>
        LET A == find(timeBlocks, activeId)
            B == find(timeBlocks, last'.over.id)
        IN /\ Len(saved') = 2
           /\ \E endA \in {find(saved'[1].timeBlocks, A.id).end} :
                saved'[1].timeBlocks =
                    [i \in DOMAIN timeBlocks |->
                        IF timeBlocks[i].id = A.id
                        THEN Placed(A, B.start, endA, B.day)
                        ELSE timeBlocks[i]]
           /\ \E endB \in {find(saved'[2].timeBlocks, B.id).end} :
                saved'[2].timeBlocks =
                    [i \in DOMAIN timeBlocks |->
                        IF timeBlocks[i].id = B.id
                        THEN Placed(B, A.start, endB, A.day)
                        ELSE saved'[1].timeBlocks[i]]
           /\ saved'[2].timeBlocks = timeBlocks'
      ]_vars

\* A swap of two blocks of different days has just been saved.
C22_Witness ==
    /\ last.op = "handleDragEnd"
    /\ last.over.kind = "sortable"
    /\ Len(saved) = 2
    /\ found(timeBlocks, last.active)
    /\ found(timeBlocks, last.over.id)
    /\ find(timeBlocks, last.active).day # find(timeBlocks, last.over.id).day
    /\ find(saved[1].timeBlocks, last.over.id) # find(timeBlocks, last.over.id)

\* C23: over any sequence of moves of a block to cells, its duration never
\* becomes greater than the duration it had when it was created (here three
\* hours, for every block).
C23_DurationNeverGrows ==
    \A i \in DOMAIN timeBlocks : Duration(timeBlocks[i]) <= CreatedHours * SecPerHour

\* The start, end and day of every block of the list.
Placements(blocks) ==
    [i \in DOMAIN blocks |-> <<blocks[i].id, blocks[i].start, blocks[i].end, blocks[i].day>>]

\* C24: a swap is undone by a second swap of the same two blocks, whichever
\* of the two is dragged: both blocks have their original start, end and day.
C24_SwapIsInvolution ==
    [][StepSwaps =>
        LET A == activeId
            B == last'.over.id
            again == swapSets(timeBlocks', A, OverSortable(B))
            back == swapSets(timeBlocks', B, OverSortable(A))
        IN /\ Len(again) = 2
           /\ Len(back) = 2
           /\ Placements(again[2]) = Placements(timeBlocks)
           /\ Placements(back[2]) = Placements(timeBlocks)
      ]_vars

\* The later-made block has been dropped onto the earlier-made one, the two
\* differing in day, hour and duration, and the pair is swapped a second time.
C24_Witness ==
    /\ last.op = "handleDragEnd"
    /\ last.over.kind = "sortable"
    /\ last.active = 2
    /\ last.over.id = 1
    /\ Len(saved) = 2
    /\ LET A == find(timeBlocks, 2)
           B == find(timeBlocks, 1)
       IN /\ A.day # B.day
          /\ getHours(start(A)) # getHours(start(B))
          /\ Duration(A) # Duration(B)
          /\ Placements(swapSets(timeBlocks, 1, OverSortable(2))[2]) # Placements(timeBlocks)

\* The week grid as drawn: for each column and hour, the ids of the blocks
\* the cell draws as starting and those it counts as spanning.
Grid ==
    [index \in 0 .. 6, hour \in HOURS |->
        [items |-> Range(cellItems(weekDates[index + 1], hour, columnTimeBlocks(index))),
         spanning |-> {block.id : block \in
                          Range(spanningBlocks(weekDates[index + 1], hour,
                                               columnTimeBlocks(index)))}]]

\* C25: in the week grid a block whose day key is in the week is a starting
\* block of exactly one cell, the one of its day key's column and of its
\* start's hour; no block is starting and spanning in one cell; a block whose
\* day key is outside the week is in no cell.
C25_GridPlacement ==
    \E grid \in {Grid} :
        \A i \in DOMAIN timeBlocks :
            LET block == timeBlocks[i]
                startsIn == {c \in (0 .. 6) \X HOURS : block.id \in grid[c].items}
                spansIn == {c \in (0 .. 6) \X HOURS : block.id \in grid[c].spanning}
            IN /\ startsIn \cap spansIn = {}
               /\ IF \E index \in 0 .. 6 : weekDates[index + 1] = block.day
                  THEN startsIn = {<<block.day - weekDates[1], getHours(start(block))>>}
                  ELSE startsIn = {} /\ spansIn = {}

\* Next week has been pressed; the block made the day before the shown week
\* at 23:00 is in no cell though it ends inside the week, and the block of
\* the week's first day is drawn starting there.
C25_Witness ==
    /\ pressed.next > pressed.prev
    /\ Len(timeBlocks) = 2
    /\ timeBlocks[1].day = weekDates[1] - 1
    /\ LocalDay(end(timeBlocks[1])) >= weekDates[1]
    /\ timeBlocks[2].day = weekDates[1]
    /\ 2 \in Grid[0, getHours(start(timeBlocks[2]))].items

\* The seven days of the week anchored at day n.
Window(n) == n .. n + 6

\* C27: the week anchor is always local midnight of a week-start day
\* (Sunday), so the seven-day windows of two anchors the user can reach are
\* the same or share no day.
C27_AnchorIsWeekStart ==
    /\ DayOfWeek(Anchor) = 0
    /\ LocalSeconds(weekStart) % SecPerDay = 0
    /\ \E first \in {LocalDay(startOfWeek(now))} :
            \/ Window(Anchor) = Window(first)
            \/ Window(Anchor) \cap Window(first) = {}

\* Previous week has been pressed twice: the shown week lies before the
\* week of today and shares no day with it.
C27_Witness ==
    /\ pressed.prev = 2
    /\ pressed.next = 0
    /\ last.op = "handlePrevWeek"
    /\ Window(Anchor) \cap Window(LocalDay(startOfWeek(now))) = {}

\* C26: in every store state each block's day key is the local calendar date
\* of its start.
C26_DayKeyIsStartDate ==
    \A i \in DOMAIN timeBlocks :
        timeBlocks[i].day = formatDay(start(timeBlocks[i]))

\* The local days on which a study session started.
SessionDays == {formatDay(NewDateFromISO(studySessions[k].startTime)) : k \in DOMAIN studySessions}

\* The sessions that started on the day.
SessionsOf(day) ==
    {k \in DOMAIN studySessions : formatDay(NewDateFromISO(studySessions[k].startTime)) = day}

RECURSIVE SumOf(_)
SumOf(indices) ==
    IF indices = {} THEN 0
    ELSE LET k == CHOOSE k \in indices : TRUE
         IN studySessions[k].productivity + SumOf(indices \ {k})

\* The result (tenths) is the mean of the day's productivities, to the nearest tenth.
IsMeanOf(tenths, day) ==
    LET count == Cardinality(SessionsOf(day))
        diff == 20 * SumOf(SessionsOf(day)) - 2 * tenths * count
    IN -count <= diff /\ diff <= count

\* What getProductivityData(days) is said to return.
ProductivityOf(result, days) ==
    /\ Len(result) <= days
    /\ \A i, j \in DOMAIN result : i < j => result[i].date < result[j].date
    /\ \A i \in DOMAIN result :
            /\ result[i].date \in SessionDays
            /\ IsMeanOf(result[i].productivity, result[i].date)
    /\ \A day \in SessionDays :
            (\E i \in DOMAIN result : result[i].date = day)
                <=> Cardinality({later \in SessionDays : later > day}) < days

\* C28: getProductivityData(days), for every days >= 0, returns at most
\* `days` entries: one per day with a session, with the mean productivity of
\* the day's sessions, by ascending date, for the `days` most recent of
\* these days.
C28_ProductivityData ==
    last.op = "getProductivityData" => ProductivityOf(last.result, last.arg)

\* The same for days >= 1 only.
C28_PositiveDays ==
    (last.op = "getProductivityData" /\ last.arg >= 1)
        => ProductivityOf(last.result, last.arg)

=============================================================================
